---- MODULE Spec2Model ----
(***************************************************************************)
(* Model of the two orthomosaic drivers of aerial_mapper:                  *)
(*   main-ortho-backward-grid.cc              (batch driver)               *)
(*   main-ortho-backward-grid-incremental.cc  (incremental driver)         *)
(* Both drivers are run on the same dataset and the same flags.  The       *)
(* variables of the incremental driver keep the names of its locals; the   *)
(* locals of the batch driver carry the prefix b_.  A frame is identified  *)
(* by its zero-based index: images[i] and T_G_Bs[i] of the source are      *)
(* At(images, i) and At(T_G_Bs, i) here.  Every call a driver makes to a   *)
(* stage is appended to its call log with the arguments it was given.      *)
(***************************************************************************)
EXTENDS Integers, Sequences, FiniteSets, TLC

\* Bounds of the model.
MaxFrames == 12
MaxStride == 5

\* Values of --dense_pcl_use_every_nth_image (a signed 32-bit flag).
Strides == (0 - 1)..MaxStride

\* Values of --backward_grid_resolution.
Resolutions == {1, 2}

\* Values of --point_cloud_filename.
Filenames == {"", "cloud.txt"}

VARIABLES
  FLAGS,          \* the parsed command line flags
  dataset,        \* what is on disk: rig readable, number of poses, images readable
  build,          \* what this build does on an unsigned division by zero
  \* incremental driver
  pc, exit, ncameras, T_G_Bs, images, map, images_subset, T_G_Bs_subset,
  skip, pcl_cnt, i, point_cloud, log,
  \* batch driver
  b_pc, b_exit, b_ncameras, b_T_G_Bs, b_images, b_point_cloud, b_map, b_log

incVars == <<pc, exit, ncameras, T_G_Bs, images, map, images_subset,
             T_G_Bs_subset, skip, pcl_cnt, i, point_cloud, log>>
batchVars == <<b_pc, b_exit, b_ncameras, b_T_G_Bs, b_images, b_point_cloud,
               b_map, b_log>>
inputVars == <<FLAGS, dataset, build>>
vars == <<FLAGS, dataset, build, pc, exit, ncameras, T_G_Bs, images, map,
          images_subset, T_G_Bs_subset, skip, pcl_cnt, i, point_cloud, log,
          b_pc, b_exit, b_ncameras, b_T_G_Bs, b_images, b_point_cloud,
          b_map, b_log>>

----------------------------------------------------------------------------
\* Helpers

\* seq[i] of a zero-indexed std::vector.
At(seq, idx) == seq[idx + 1]

\* The frames 0 .. n-1 in capture order.
FrameSeq(n) == [k \in 1..n |-> k - 1]

Range(seq) == {seq[k] : k \in 1..Len(seq)}

Max(a, b) == IF a >= b THEN a ELSE b

\* The raster object of a driver before its construction.
NoMap == [constructed |-> 0, settings |-> <<>>, elevation |-> {},
          color |-> {}, published |-> 0]

\* grid_map::Settings filled from the flags.
GridMapSettings(flags) ==
  [center_easting  |-> flags.backward_grid_center_easting,
   center_northing |-> flags.backward_grid_center_northing,
   delta_easting   |-> flags.backward_grid_delta_easting,
   delta_northing  |-> flags.backward_grid_delta_northing,
   resolution      |-> flags.backward_grid_resolution]

\* grid_map::AerialGridMap map(settings): one more raster constructed.
AerialGridMap(old, settings) ==
  [constructed |-> old.constructed + 1, settings |-> settings,
   elevation |-> {}, color |-> {}, published |-> 0]

\* map.getMutable(): the raster a stage call is handed, named by the
\* ordinal of its construction (0: no raster).
getMutable_Copy(m) == m.constructed + 1

getMutable(m) == m.constructed

\* One entry of a call log.
Call(op, poses, imgs, cloud, raster) ==
  [op |-> op, poses |-> poses, images |-> imgs, cloud |-> cloud,
   raster |-> raster]

\* The points a reconstruction call yields, named by the frames it was given.
Reconstruct(poses, imgs) == {<<"stereo", imgs[k]>> : k \in 1..Len(imgs)}

\* The points of the point cloud file.
FilePoints == {<<"file", 0>>}


\* dsm::Dsm::process(point_cloud, map): the points are fused into the
\* elevation layer; the geometry of the raster is left alone.
DsmProcess(m, cloud) == [m EXCEPT !.elevation = @ \cup cloud]

\* ortho::OrthoBackwardGrid::process(T_G_Bs, images, map): the colour layer
\* is composited from the frames given.
MosaicProcess(m, poses, imgs) == [m EXCEPT !.color = @ \cup Range(imgs)]

\* AerialGridMap::publishOnce / publishUntilShutdown.
Publish(m) == [m EXCEPT !.published = @ + 1]

\* io::AerialMapperIO::loadImagesFromFile: the images of the dataset, one
\* per pose, or a fatal error when an image file is missing or unreadable.
loadImagesFromFile(ds, num_poses) ==
  IF ds.images_ok THEN [ok |-> TRUE, images |-> FrameSeq(num_poses)]
  ELSE [ok |-> FALSE, images |-> <<>>]

\* skip % FLAGS_dense_pcl_use_every_nth_image for a non-zero flag: the
\* int32 flag is converted to size_t, so a negative flag n becomes
\* 2^64 + n, which exceeds every value the counter takes, and the
\* remainder is the counter itself.
SkipModStride_OffByOne(s, n) == IF n > 0 THEN (s - 1) % n ELSE s

SkipModStride(s, n) == IF n > 0 THEN s % n ELSE s

\* What a build may do on size_t % 0: trap, or yield a remainder that the
\* test finds zero, or one it finds non-zero.
DivByZeroOutcomes == {"sigfpe", "true", "false"}

\* Outcome of the test (++skip % flag == 0).  A flag of 0 is a division by
\* zero, with the outcome of the build.
TriggerOutcome(s, n, b) ==
  IF n = 0 THEN b
  ELSE IF SkipModStride(s, n) = 0 THEN "true" ELSE "false"

\* Outcomes of reading T_G_Bs[i]: past the end of the vector the read may
\* fault or yield an indeterminate pose (written -1).
PoseReads(poses, idx) ==
  IF idx < Len(poses) THEN {At(poses, idx)} ELSE {0 - 1, 0 - 2}

\* The guard of the fusion/compositing/publish block.
PassGuard_FromFirst(cnt) == cnt >= 0

PassGuard_FromThird(cnt) == cnt > 1

PassGuard(cnt) == cnt > 0

----------------------------------------------------------------------------
\* Initial states: any flags, any dataset; both drivers at their first line.

Init ==
  /\ FLAGS \in [dense_pcl_use_every_nth_image : Strides,
                load_point_cloud_from_file : BOOLEAN,
                point_cloud_filename : Filenames,
                backward_grid_center_easting : {0},
                backward_grid_center_northing : {0},
                backward_grid_delta_easting : {100},
                backward_grid_delta_northing : {100},
                backward_grid_resolution : Resolutions]
  /\ dataset \in [rig_ok : BOOLEAN, num_poses : 0..MaxFrames,
                  images_ok : BOOLEAN]
  /\ build \in IF FLAGS.dense_pcl_use_every_nth_image = 0
                THEN DivByZeroOutcomes ELSE {"defined"}
  /\ pc = "load_rig" /\ exit = "running" /\ ncameras = FALSE
  /\ T_G_Bs = <<>> /\ images = <<>> /\ map = NoMap
  /\ images_subset = <<>> /\ T_G_Bs_subset = <<>>
  /\ skip = 0 /\ pcl_cnt = 0 /\ i = 0 /\ point_cloud = {} /\ log = <<>>
  /\ b_pc = "load_rig" /\ b_exit = "running" /\ b_ncameras = FALSE
  /\ b_T_G_Bs = <<>> /\ b_images = <<>> /\ b_point_cloud = {}
  /\ b_map = NoMap /\ b_log = <<>>

----------------------------------------------------------------------------
\* Incremental driver (main-ortho-backward-grid-incremental.cc)

I_LoadCameraRig_Unchecked ==
  /\ pc = "load_rig"
  /\ ncameras' = dataset.rig_ok
  /\ pc' = "load_poses" /\ exit' = exit
  /\ UNCHANGED <<T_G_Bs, images, map, images_subset, T_G_Bs_subset, skip,
                 pcl_cnt, i, point_cloud, log>>
  /\ UNCHANGED <<inputVars, batchVars>>

\* loadCameraRigFromFile; CHECK(ncameras).
I_LoadCameraRig ==
  /\ pc = "load_rig"
  /\ ncameras' = dataset.rig_ok
  /\ IF dataset.rig_ok
       THEN pc' = "load_poses" /\ exit' = exit
       ELSE pc' = "aborted" /\ exit' = "check_failed"
  /\ UNCHANGED <<T_G_Bs, images, map, images_subset, T_G_Bs_subset, skip,
                 pcl_cnt, i, point_cloud, log>>
  /\ UNCHANGED <<inputVars, batchVars>>

\* loadPosesFromFile.
I_LoadPoses ==
  /\ pc = "load_poses"
  /\ T_G_Bs' = FrameSeq(dataset.num_poses)
  /\ pc' = "load_images"
  /\ UNCHANGED <<exit, ncameras, images, map, images_subset, T_G_Bs_subset,
                 skip, pcl_cnt, i, point_cloud, log>>
  /\ UNCHANGED <<inputVars, batchVars>>

\* loadImagesFromFile with num_poses = T_G_Bs.size().
I_LoadImages ==
  /\ pc = "load_images"
  /\ LET r == loadImagesFromFile(dataset, Len(T_G_Bs)) IN
       IF r.ok
         THEN images' = r.images /\ pc' = "setup" /\ exit' = exit
         ELSE images' = images /\ pc' = "aborted" /\ exit' = "check_failed"
  /\ UNCHANGED <<ncameras, T_G_Bs, map, images_subset, T_G_Bs_subset, skip,
                 pcl_cnt, i, point_cloud, log>>
  /\ UNCHANGED <<inputVars, batchVars>>

\* The raster, the stereo, DSM and orthomosaic objects and the loop's
\* locals are set up.
I_Setup ==
  /\ pc = "setup"
  /\ map' = AerialGridMap(map, GridMapSettings(FLAGS))
  /\ images_subset' = <<>> /\ T_G_Bs_subset' = <<>>
  /\ skip' = 0 /\ pcl_cnt' = 0 /\ i' = 0
  /\ pc' = "loop"
  /\ UNCHANGED <<exit, ncameras, T_G_Bs, images, point_cloud, log>>
  /\ UNCHANGED <<inputVars, batchVars>>

\* for (...; i < images.size(); ...), and return 0 after the loop.
I_LoopTest ==
  /\ pc = "loop"
  /\ IF i < Len(images)
       THEN pc' = "body" /\ exit' = exit
       ELSE pc' = "done" /\ exit' = "ok"
  /\ UNCHANGED <<ncameras, T_G_Bs, images, map, images_subset, T_G_Bs_subset,
                 skip, pcl_cnt, i, point_cloud, log>>
  /\ UNCHANGED <<inputVars, batchVars>>

\* The frame is pushed on both buffers, the counter is incremented and
\* tested against the flag.
I_Accumulate ==
  /\ pc = "body"
  /\ \E pose \in PoseReads(T_G_Bs, i) :
       LET test == TriggerOutcome(skip + 1,
                                  FLAGS.dense_pcl_use_every_nth_image, build)
       IN
       IF pose = 0 - 2
         THEN /\ pc' = "aborted" /\ exit' = "fault"
              /\ images_subset' = Append(images_subset, At(images, i))
              /\ UNCHANGED <<T_G_Bs_subset, skip, i>>
         ELSE /\ images_subset' = Append(images_subset, At(images, i))
              /\ T_G_Bs_subset' = Append(T_G_Bs_subset, pose)
              /\ skip' = skip + 1
              /\ CASE test = "sigfpe" ->
                        pc' = "aborted" /\ exit' = "fault" /\ i' = i
                   [] test = "true" ->
                        pc' = "addFrame" /\ exit' = exit /\ i' = i
                   [] test = "false" ->
                        pc' = "loop" /\ exit' = exit /\ i' = i + 1
  /\ UNCHANGED <<ncameras, T_G_Bs, images, map, pcl_cnt, point_cloud, log>>
  /\ UNCHANGED <<inputVars, batchVars>>

I_AddFrame_WholeWindow ==
  /\ pc = "addFrame"
  /\ point_cloud' = Reconstruct(T_G_Bs_subset, images_subset)
  /\ log' = Append(log, Call("addFrame", T_G_Bs_subset, images_subset, {}, 0))
  /\ IF PassGuard(pcl_cnt)
       THEN pc' = "dsm" /\ pcl_cnt' = pcl_cnt /\ i' = i
       ELSE pc' = "loop" /\ pcl_cnt' = pcl_cnt + 1 /\ i' = i + 1
  /\ UNCHANGED <<exit, ncameras, T_G_Bs, images, map, images_subset,
                 T_G_Bs_subset, skip>>
  /\ UNCHANGED <<inputVars, batchVars>>

I_AddFrame_KeepsPoints ==
  /\ pc = "addFrame"
  /\ LET poses == <<IF i < Len(T_G_Bs) THEN At(T_G_Bs, i) ELSE 0 - 1>>
         imgs == <<At(images, i)>> IN
       /\ point_cloud' = point_cloud \cup Reconstruct(poses, imgs)
       /\ log' = Append(log, Call("addFrame", poses, imgs, {}, 0))
  /\ IF PassGuard(pcl_cnt)
       THEN pc' = "dsm" /\ pcl_cnt' = pcl_cnt /\ i' = i
       ELSE pc' = "loop" /\ pcl_cnt' = pcl_cnt + 1 /\ i' = i + 1
  /\ UNCHANGED <<exit, ncameras, T_G_Bs, images, map, images_subset,
                 T_G_Bs_subset, skip>>
  /\ UNCHANGED <<inputVars, batchVars>>

\* stereo.addFrame(T_G_Bs[i], images[i], &point_cloud), then the guard
\* pcl_cnt > 0; without a pass the counter of windows is incremented here.
I_AddFrame ==
  /\ pc = "addFrame"
  /\ LET poses == <<IF i < Len(T_G_Bs) THEN At(T_G_Bs, i) ELSE 0 - 1>>
         imgs == <<At(images, i)>> IN
       /\ point_cloud' = Reconstruct(poses, imgs)
       /\ log' = Append(log, Call("addFrame", poses, imgs, {}, 0))
  /\ IF PassGuard(pcl_cnt)
       THEN pc' = "dsm" /\ pcl_cnt' = pcl_cnt /\ i' = i
       ELSE pc' = "loop" /\ pcl_cnt' = pcl_cnt + 1 /\ i' = i + 1
  /\ UNCHANGED <<exit, ncameras, T_G_Bs, images, map, images_subset,
                 T_G_Bs_subset, skip>>
  /\ UNCHANGED <<inputVars, batchVars>>

I_Fuse_SkipComposite ==
  /\ pc = "dsm"
  /\ map' = DsmProcess(map, point_cloud)
  /\ log' = Append(log, Call("dsm", <<>>, <<>>, point_cloud, getMutable(map)))
  /\ pc' = "publish"
  /\ UNCHANGED <<exit, ncameras, T_G_Bs, images, images_subset, T_G_Bs_subset,
                 skip, pcl_cnt, i, point_cloud>>
  /\ UNCHANGED <<inputVars, batchVars>>

\* digital_surface_map.process(point_cloud, map.getMutable()).
I_Fuse ==
  /\ pc = "dsm"
  /\ map' = DsmProcess(map, point_cloud)
  /\ log' = Append(log, Call("dsm", <<>>, <<>>, point_cloud, getMutable(map)))
  /\ pc' = "mosaic"
  /\ UNCHANGED <<exit, ncameras, T_G_Bs, images, images_subset, T_G_Bs_subset,
                 skip, pcl_cnt, i, point_cloud>>
  /\ UNCHANGED <<inputVars, batchVars>>

\* mosaic.process(T_G_Bs_subset, images_subset, map.getMutable()).
I_Composite ==
  /\ pc = "mosaic"
  /\ map' = MosaicProcess(map, T_G_Bs_subset, images_subset)
  /\ log' = Append(log, Call("mosaic", T_G_Bs_subset, images_subset, {},
                             getMutable(map)))
  /\ pc' = "publish"
  /\ UNCHANGED <<exit, ncameras, T_G_Bs, images, images_subset, T_G_Bs_subset,
                 skip, pcl_cnt, i, point_cloud>>
  /\ UNCHANGED <<inputVars, batchVars>>

I_Publish_NoClear ==
  /\ pc = "publish"
  /\ map' = Publish(map)
  /\ log' = Append(log, Call("publish", <<>>, <<>>, {}, getMutable(map)))
  /\ pcl_cnt' = pcl_cnt + 1
  /\ i' = i + 1
  /\ pc' = "loop"
  /\ UNCHANGED <<exit, ncameras, T_G_Bs, images, skip, point_cloud,
                 images_subset, T_G_Bs_subset>>
  /\ UNCHANGED <<inputVars, batchVars>>

\* map.publishOnce(); both buffers are cleared; ++pcl_cnt; next frame.
I_Publish ==
  /\ pc = "publish"
  /\ map' = Publish(map)
  /\ log' = Append(log, Call("publish", <<>>, <<>>, {}, getMutable(map)))
  /\ images_subset' = <<>> /\ T_G_Bs_subset' = <<>>
  /\ pcl_cnt' = pcl_cnt + 1
  /\ i' = i + 1
  /\ pc' = "loop"
  /\ UNCHANGED <<exit, ncameras, T_G_Bs, images, skip, point_cloud>>
  /\ UNCHANGED <<inputVars, batchVars>>

\* A stage call throws or aborts: main has no handler, the process ends.
I_StageFailure ==
  /\ pc \in {"addFrame", "dsm", "mosaic", "publish"}
  /\ pc' = "aborted" /\ exit' = "stage_failure"
  /\ UNCHANGED <<ncameras, T_G_Bs, images, map, images_subset, T_G_Bs_subset,
                 skip, pcl_cnt, i, point_cloud, log>>
  /\ UNCHANGED <<inputVars, batchVars>>

----------------------------------------------------------------------------
\* Batch driver (main-ortho-backward-grid.cc)

\* loadCameraRigFromFile; CHECK(ncameras).
B_LoadCameraRig ==
  /\ b_pc = "load_rig"
  /\ b_ncameras' = dataset.rig_ok
  /\ IF dataset.rig_ok
       THEN b_pc' = "load_poses" /\ b_exit' = b_exit
       ELSE b_pc' = "aborted" /\ b_exit' = "check_failed"
  /\ UNCHANGED <<b_T_G_Bs, b_images, b_point_cloud, b_map, b_log>>
  /\ UNCHANGED <<inputVars, incVars>>

\* loadPosesFromFile.
B_LoadPoses ==
  /\ b_pc = "load_poses"
  /\ b_T_G_Bs' = FrameSeq(dataset.num_poses)
  /\ b_pc' = "load_images"
  /\ UNCHANGED <<b_exit, b_ncameras, b_images, b_point_cloud, b_map, b_log>>
  /\ UNCHANGED <<inputVars, incVars>>

\* loadImagesFromFile with num_poses = T_G_Bs.size().
B_LoadImages ==
  /\ b_pc = "load_images"
  /\ LET r == loadImagesFromFile(dataset, Len(b_T_G_Bs)) IN
       IF r.ok
         THEN b_images' = r.images /\ b_pc' = "select" /\ b_exit' = b_exit
         ELSE b_images' = b_images /\ b_pc' = "aborted"
              /\ b_exit' = "check_failed"
  /\ UNCHANGED <<b_ncameras, b_T_G_Bs, b_point_cloud, b_map, b_log>>
  /\ UNCHANGED <<inputVars, incVars>>

B_SelectSource_Unchecked ==
  /\ b_pc = "select"
  /\ IF FLAGS.load_point_cloud_from_file
       THEN b_pc' = "load_cloud" /\ b_exit' = b_exit
       ELSE b_pc' = "addFrames" /\ b_exit' = b_exit
  /\ UNCHANGED <<b_ncameras, b_T_G_Bs, b_images, b_point_cloud, b_map, b_log>>
  /\ UNCHANGED <<inputVars, incVars>>

\* if (FLAGS_load_point_cloud_from_file) with
\* CHECK(!FLAGS_point_cloud_filename.empty()).
B_SelectSource ==
  /\ b_pc = "select"
  /\ IF FLAGS.load_point_cloud_from_file
       THEN IF FLAGS.point_cloud_filename = ""
              THEN b_pc' = "aborted" /\ b_exit' = "check_failed"
              ELSE b_pc' = "load_cloud" /\ b_exit' = b_exit
       ELSE b_pc' = "addFrames" /\ b_exit' = b_exit
  /\ UNCHANGED <<b_ncameras, b_T_G_Bs, b_images, b_point_cloud, b_map, b_log>>
  /\ UNCHANGED <<inputVars, incVars>>

\* io_handler.loadPointCloudFromFile(FLAGS_point_cloud_filename, &point_cloud).
B_LoadPointCloud ==
  /\ b_pc = "load_cloud"
  /\ b_point_cloud' = FilePoints
  /\ b_log' = Append(b_log, Call("loadPointCloud", <<>>, <<>>, {}, 0))
  /\ b_pc' = "init_map"
  /\ UNCHANGED <<b_exit, b_ncameras, b_T_G_Bs, b_images, b_map>>
  /\ UNCHANGED <<inputVars, incVars>>

B_Reconstruct_FirstPairOnly ==
  /\ b_pc = "addFrames"
  /\ LET n == IF Len(b_images) < 2 THEN Len(b_images) ELSE 2 IN
       /\ b_point_cloud' = Reconstruct(SubSeq(b_T_G_Bs, 1, n),
                                       SubSeq(b_images, 1, n))
       /\ b_log' = Append(b_log, Call("addFrames", SubSeq(b_T_G_Bs, 1, n),
                                      SubSeq(b_images, 1, n), {}, 0))
  /\ b_pc' = "init_map"
  /\ UNCHANGED <<b_exit, b_ncameras, b_T_G_Bs, b_images, b_map>>
  /\ UNCHANGED <<inputVars, incVars>>

\* stereo.addFrames(T_G_Bs, images, &point_cloud).
B_Reconstruct ==
  /\ b_pc = "addFrames"
  /\ b_point_cloud' = Reconstruct(b_T_G_Bs, b_images)
  /\ b_log' = Append(b_log, Call("addFrames", b_T_G_Bs, b_images, {}, 0))
  /\ b_pc' = "init_map"
  /\ UNCHANGED <<b_exit, b_ncameras, b_T_G_Bs, b_images, b_map>>
  /\ UNCHANGED <<inputVars, incVars>>

\* grid_map::AerialGridMap map(settings_aerial_grid_map).
B_InitMap ==
  /\ b_pc = "init_map"
  /\ b_map' = AerialGridMap(b_map, GridMapSettings(FLAGS))
  /\ b_pc' = "dsm"
  /\ UNCHANGED <<b_exit, b_ncameras, b_T_G_Bs, b_images, b_point_cloud, b_log>>
  /\ UNCHANGED <<inputVars, incVars>>

\* digital_surface_map.process(point_cloud, map.getMutable()).
B_Fuse ==
  /\ b_pc = "dsm"
  /\ b_map' = DsmProcess(b_map, b_point_cloud)
  /\ b_log' = Append(b_log, Call("dsm", <<>>, <<>>, b_point_cloud,
                                 getMutable(b_map)))
  /\ b_pc' = "mosaic"
  /\ UNCHANGED <<b_exit, b_ncameras, b_T_G_Bs, b_images, b_point_cloud>>
  /\ UNCHANGED <<inputVars, incVars>>

\* mosaic.process(T_G_Bs, images, map.getMutable()).
B_Composite ==
  /\ b_pc = "mosaic"
  /\ b_map' = MosaicProcess(b_map, b_T_G_Bs, b_images)
  /\ b_log' = Append(b_log, Call("mosaic", b_T_G_Bs, b_images, {},
                                 getMutable(b_map)))
  /\ b_pc' = "publish"
  /\ UNCHANGED <<b_exit, b_ncameras, b_T_G_Bs, b_images, b_point_cloud>>
  /\ UNCHANGED <<inputVars, incVars>>

\* map.publishUntilShutdown(); return 0.
B_Publish ==
  /\ b_pc = "publish"
  /\ b_map' = Publish(b_map)
  /\ b_log' = Append(b_log, Call("publish", <<>>, <<>>, {}, getMutable(b_map)))
  /\ b_pc' = "done" /\ b_exit' = "ok"
  /\ UNCHANGED <<b_ncameras, b_T_G_Bs, b_images, b_point_cloud>>
  /\ UNCHANGED <<inputVars, incVars>>

\* A stage call throws or aborts: main has no handler, the process ends.
B_StageFailure ==
  /\ b_pc \in {"load_cloud", "addFrames", "dsm", "mosaic", "publish"}
  /\ b_pc' = "aborted" /\ b_exit' = "stage_failure"
  /\ UNCHANGED <<b_ncameras, b_T_G_Bs, b_images, b_point_cloud, b_map, b_log>>
  /\ UNCHANGED <<inputVars, incVars>>

----------------------------------------------------------------------------
Next ==
  \/ I_LoadCameraRig \/ I_LoadPoses \/ I_LoadImages \/ I_Setup
  \/ I_LoopTest \/ I_Accumulate \/ I_AddFrame \/ I_Fuse \/ I_Composite
  \/ I_Publish \/ I_StageFailure
  \/ B_LoadCameraRig \/ B_LoadPoses \/ B_LoadImages \/ B_SelectSource
  \/ B_LoadPointCloud \/ B_Reconstruct \/ B_InitMap \/ B_Fuse \/ B_Composite
  \/ B_Publish \/ B_StageFailure

Spec == Init /\ [][Next]_vars

----------------------------------------------------------------------------
\* Vocabulary of the properties

Stride == FLAGS.dense_pcl_use_every_nth_image

\* Number of calls of a stage in a call log.
NumCalls(l, op) == Cardinality({k \in 1..Len(l) : l[k].op = op})

\* The frames (images) handed to the calls of the given stages.
ImagesGiven(l, ops) ==
  UNION {Range(l[k].images) : k \in {j \in 1..Len(l) : l[j].op \in ops}}

\* The poses handed to the calls of the given stages.
PosesGiven(l, ops) ==
  UNION {Range(l[k].poses) : k \in {j \in 1..Len(l) : l[j].op \in ops}}

\* The points handed to the fuser.
PointsFused(l) ==
  UNION {l[k].cloud : k \in {j \in 1..Len(l) : l[j].op = "dsm"}}

\* Number of windows completed after s frames with window size n (a
\* negative flag is a window no run completes).
WindowsCompleted(s, n) == IF n > 0 THEN s \div n ELSE 0

\* A fusion/compositing/publish pass has run k times: each of its three
\* stages was called k times.
PassesAre(l, k) ==
  /\ NumCalls(l, "dsm") = k
  /\ NumCalls(l, "mosaic") = k
  /\ NumCalls(l, "publish") = k

\* The frames of the tail: consumed after the last completed window.
TailFrames == {k \in 0..(Len(images) - 1) :
                 k >= Stride * WindowsCompleted(Len(images), Stride)}

\* No frame of the set reached a stage: neither as an argument of a
\* reconstruction or compositing call nor as the source of a fused point.
NeverProcessed(frames) ==
  /\ ImagesGiven(log, {"addFrame", "mosaic"}) \cap frames = {}
  /\ PosesGiven(log, {"addFrame", "mosaic"}) \cap frames = {}
  /\ PointsFused(log) \cap {<<"stereo", k>> : k \in frames} = {}

----------------------------------------------------------------------------
\* C1 (as stated): with window size 5 and 12 frames the finished
\* incremental run has made exactly 2 fusion/compositing/publish passes,
\* dropped the partial tail and never fused the first window's points.
ScenarioB_Done == Stride = 5 /\ Len(images) = 12 /\ pc = "done"

C1_TwoPasses ==
  ScenarioB_Done =>
    /\ PassesAre(log, 2)
    /\ NeverProcessed({10, 11})
    /\ <<"stereo", 4>> \notin PointsFused(log)

\* C1 (amended): with window size 5 and 12 frames the finished incremental
\* run has made exactly 1 fusion/compositing/publish pass (after the second
\* window, frames 0..9) and 2 reconstruction calls; the tail (frames 10, 11)
\* reached no stage and the points of the first window were never fused.
C1_OnePass ==
  ScenarioB_Done =>
    /\ PassesAre(log, 1)
    /\ NumCalls(log, "addFrame") = 2
    /\ NeverProcessed({10, 11})
    /\ <<"stereo", 4>> \notin PointsFused(log)
    /\ PointsFused(log) = {<<"stereo", 9>>}

C1_Witness == ScenarioB_Done /\ exit = "ok" /\ map.published = 1

----------------------------------------------------------------------------
\* C2: between frames of an incremental run with a non-zero window size,
\* one reconstruction call has been made per completed window and one
\* fuse, one composite and one publish per completed window after the
\* first; no fuse, composite or publish is in the log before the second
\* window has completed.
C2_FirstWindowNotFused ==
  (Stride # 0) =>
    /\ (pc \in {"loop", "body", "done"} =>
          /\ pcl_cnt = WindowsCompleted(skip, Stride)
          /\ NumCalls(log, "addFrame") = pcl_cnt
          /\ PassesAre(log, Max(0, pcl_cnt - 1)))
    /\ (NumCalls(log, "dsm") + NumCalls(log, "mosaic")
          + NumCalls(log, "publish") > 0 => skip >= 2 * Stride)
    /\ (pcl_cnt = 1 /\ pc = "loop" =>
          NumCalls(log, "addFrame") = 1 /\ Len(log) = 1)

C2_Witness ==
  /\ Stride >= 2 /\ pc = "loop" /\ pcl_cnt = 3
  /\ NumCalls(log, "addFrame") = 3 /\ PassesAre(log, 2)

----------------------------------------------------------------------------
\* C3: an incremental run that reaches end of input with a partial window
\* ends normally, has run no pass beyond those of the completed windows,
\* and has handed no frame of the partial window to reconstruction, fusion
\* or compositing; the frames are left in the buffer.
PartialTailAtEnd ==
  pc = "done" /\ Stride # 0 /\ TailFrames # {}

C3_TailDropped ==
  PartialTailAtEnd =>
    /\ exit = "ok"
    /\ NeverProcessed(TailFrames)
    /\ NumCalls(log, "addFrame") = WindowsCompleted(Len(images), Stride)
    /\ PassesAre(log, Max(0, WindowsCompleted(Len(images), Stride) - 1))
    /\ TailFrames \subseteq Range(images_subset)

C3_Witness ==
  /\ PartialTailAtEnd /\ Stride = 2 /\ Len(images) = 7
  /\ PassesAre(log, 2) /\ TailFrames = {6}

----------------------------------------------------------------------------
\* C4 (as stated): with a positive window size the buffers never hold more
\* frames than the window size.
C4_BoundedByWindow ==
  Stride >= 1 =>
    /\ Len(images_subset) <= Stride
    /\ Len(T_G_Bs_subset) <= Stride

\* C4 (amended): with a positive window size N the buffers never hold more
\* than 2N frames: they are cleared only at the end of a pass, no pass
\* follows the first window, so they hold 2N frames at the first pass;
\* once a pass has run they hold at most N frames, and they are empty
\* right after each pass.
C4_BoundedByTwoWindows ==
  Stride >= 1 =>
    /\ Len(images_subset) <= 2 * Stride
    /\ Len(T_G_Bs_subset) <= 2 * Stride
    /\ (pcl_cnt >= 2 => Len(images_subset) <= Stride
                        /\ Len(T_G_Bs_subset) <= Stride)
    /\ (pc = "loop" /\ pcl_cnt >= 2 /\ skip % Stride = 0 =>
          images_subset = <<>> /\ T_G_Bs_subset = <<>>)

C4_Witness ==
  /\ Stride >= 2 /\ pc = "mosaic" /\ pcl_cnt = 1
  /\ Len(images_subset) = 2 * Stride

----------------------------------------------------------------------------
\* C5 (as stated): between frames of an incremental run with a positive
\* window size, every frame of a completed window has been given to the
\* reconstruction stage.
C5_WholeWindowReconstructed ==
  (Stride >= 1 /\ pc \in {"loop", "done"}) =>
    \A k \in 0..(Stride * WindowsCompleted(skip, Stride) - 1) :
      k \in ImagesGiven(log, {"addFrame"})

\* C5 (amended): when the counter reaches a multiple of the window size,
\* only the frame that completed the window, with its own pose, is
\* supplied to the PointCloudProducer (every N-th frame); the whole
\* accumulated buffer is supplied to the OrthoCompositor.
C5_OnlyTriggerFrameReconstructed ==
  (Stride >= 1) =>
    /\ \A k \in 1..Len(log) :
         log[k].op = "addFrame" =>
           /\ Len(log[k].images) = 1 /\ log[k].poses = log[k].images
           /\ (log[k].images[1] + 1) % Stride = 0
    /\ (pc \in {"loop", "done"} =>
          ImagesGiven(log, {"addFrame"}) =
            {k \in 0..(skip - 1) : (k + 1) % Stride = 0})
    /\ (pc = "publish" =>
          log[Len(log)].images = images_subset
          /\ log[Len(log)].poses = T_G_Bs_subset)

C5_Witness ==
  /\ Stride = 3 /\ pc = "publish" /\ pcl_cnt = 1
  /\ ImagesGiven(log, {"addFrame"}) = {2, 5}
  /\ log[Len(log)].images = <<0, 1, 2, 3, 4, 5>>

----------------------------------------------------------------------------
\* C6 (as stated): a finished batch run has called reconstruction, fusion
\* and compositing exactly once each, over all poses and all images, then
\* published, in this order.
C6_BatchLinearReconstructs ==
  b_pc = "done" =>
    /\ Len(b_log) = 4
    /\ b_log[1] = Call("addFrames", b_T_G_Bs, b_images, {}, 0)
    /\ b_log[2].op = "dsm" /\ b_log[3].op = "mosaic"
    /\ b_log[3].images = b_images /\ b_log[3].poses = b_T_G_Bs
    /\ b_log[4].op = "publish"

\* C6 (amended): a finished batch run has made exactly four stage calls,
\* in this order and each once: the point cloud stage (reconstruction over
\* all poses and all images, or, when load-from-file is selected, the
\* point cloud loader instead of reconstruction), fusion of that cloud,
\* compositing over all poses and all images, and publishing.
C6_BatchLinear ==
  b_pc = "done" =>
    /\ Len(b_log) = 4
    /\ b_log[1] = IF FLAGS.load_point_cloud_from_file
                    THEN Call("loadPointCloud", <<>>, <<>>, {}, 0)
                    ELSE Call("addFrames", FrameSeq(dataset.num_poses),
                              FrameSeq(dataset.num_poses), {}, 0)
    /\ b_log[2].op = "dsm" /\ b_log[2].cloud = b_point_cloud
    /\ b_log[3].op = "mosaic"
    /\ b_log[3].images = FrameSeq(dataset.num_poses)
    /\ b_log[3].poses = FrameSeq(dataset.num_poses)
    /\ b_log[4].op = "publish"
    /\ b_map.published = 1 /\ b_exit = "ok"

C6_Witness ==
  /\ b_pc = "done" /\ ~FLAGS.load_point_cloud_from_file
  /\ Len(b_images) = 4 /\ b_map.color = {0, 1, 2, 3}

----------------------------------------------------------------------------
\* C7 (as stated): with a positive window size, a stage failure never ends
\* an incremental run; and it ends a batch run.
C7_FailureIsolated ==
  /\ (Stride >= 1 => ~(pc = "aborted" /\ exit = "stage_failure"))
  /\ (b_exit = "stage_failure" => b_pc = "aborted")

----------------------------------------------------------------------------
----------------------------------------------------------------------------
\* C9 (as stated): when all frames (at least one stereo pair) fit in one
\* incremental window and both runs have finished over the same frames,
\* both reconstructing, the elevation layers hold the same fused points and
\* the colour layers are composited from the same frames.
C9_BatchEqualsIncremental ==
  (/\ pc = "done" /\ b_pc = "done"
   /\ ~FLAGS.load_point_cloud_from_file
   /\ Stride >= 1 /\ Len(images) >= 2 /\ Len(images) <= Stride) =>
    /\ map.elevation = b_map.elevation
    /\ map.color = b_map.color

----------------------------------------------------------------------------
\* C10: each driver constructs at most one raster, exactly one before any
\* fusion or compositing call; its settings are the configured centre,
\* extent and resolution in every state after construction; every fusion,
\* compositing and publish call is handed that one raster.
RasterFrozen(m, l) ==
  /\ m.constructed <= 1
  /\ (m.constructed = 1 =>
        /\ m.settings.center_easting = FLAGS.backward_grid_center_easting
        /\ m.settings.center_northing = FLAGS.backward_grid_center_northing
        /\ m.settings.delta_easting = FLAGS.backward_grid_delta_easting
        /\ m.settings.delta_northing = FLAGS.backward_grid_delta_northing
        /\ m.settings.resolution = FLAGS.backward_grid_resolution)
  /\ \A k \in 1..Len(l) :
       l[k].op \in {"dsm", "mosaic", "publish"} =>
         m.constructed = 1 /\ l[k].raster = 1

C10_OneFrozenRaster == RasterFrozen(map, log) /\ RasterFrozen(b_map, b_log)

C10_Witness ==
  /\ NumCalls(log, "mosaic") = 2 /\ NumCalls(log, "dsm") = 2
  /\ FLAGS.backward_grid_resolution = 2 /\ map.settings.resolution = 2
  /\ b_pc = "done"

----------------------------------------------------------------------------
\* C11: in the incremental call log every fuse directly follows a
\* reconstruction, every composite directly follows a fuse and every
\* publish directly follows a composite; a reconstruction is the first call,
\* or follows a publish, or follows the reconstruction of the skipped first
\* window.  A frame is accumulated only while no pass is in progress (the
\* last call, if any, has returned and is a publish or the first window's
\* reconstruction); the layers of the raster are written only in the fuse
\* and composite steps, and the publish step writes no layer.
LastOp(l) == IF l = <<>> THEN "none" ELSE l[Len(l)].op

NoPassInProgress ==
  \/ LastOp(log) \in {"none", "publish"}
  \/ (Len(log) = 1 /\ LastOp(log) = "addFrame")

PassOrder ==
  /\ \A k \in 1..Len(log) :
       /\ (log[k].op = "dsm" => k > 1 /\ log[k - 1].op = "addFrame")
       /\ (log[k].op = "mosaic" => k > 1 /\ log[k - 1].op = "dsm")
       /\ (log[k].op = "publish" => k > 1 /\ log[k - 1].op = "mosaic")
       /\ (log[k].op = "addFrame" =>
             k = 1 \/ log[k - 1].op = "publish" \/ k = 2)
  /\ (pc = "dsm" => LastOp(log) = "addFrame")
  /\ (pc = "mosaic" => LastOp(log) = "dsm")
  /\ (pc = "publish" => LastOp(log) = "mosaic")
  /\ (pc \in {"loop", "body", "done"} => NoPassInProgress)

PublishSynchronous ==
  /\ (Len(images_subset') > Len(images_subset) =>
        pc = "body" /\ NoPassInProgress)
  /\ (map'.published # map.published =>
        /\ pc = "publish" /\ pc' = "loop"
        /\ map'.elevation = map.elevation /\ map'.color = map.color)
  /\ ((map'.elevation # map.elevation \/ map'.color # map.color) =>
        pc \in {"dsm", "mosaic"} /\ map'.published = map.published)

C11_PassOrderSynchronous == [](PassOrder) /\ [][PublishSynchronous]_vars

C11_Witness ==
  /\ Stride = 2 /\ pc = "body" /\ LastOp(log) = "publish"
  /\ map.published = 2 /\ Len(log) = 9

----------------------------------------------------------------------------
\* C12: every fuse call of the incremental run is handed exactly the
\* points the reconstruction call right before it produced; the clouds of
\* two fuse calls share no point; the points of the first reconstruction
\* call (the skipped first window) are handed to no fuse call.
FuseCalls(l) == {k \in 1..Len(l) : l[k].op = "dsm"}

C12_OnlyNewPointsFused ==
  /\ \A k \in FuseCalls(log) :
       /\ k > 1 /\ log[k - 1].op = "addFrame"
       /\ log[k].cloud = Reconstruct(log[k - 1].poses, log[k - 1].images)
  /\ \A j, k \in FuseCalls(log) :
       j # k => log[j].cloud \cap log[k].cloud = {}
  /\ (log # <<>> =>
        PointsFused(log)
          \cap Reconstruct(log[1].poses, log[1].images) = {})
  /\ (pc = "dsm" =>
        point_cloud = Reconstruct(log[Len(log)].poses, log[Len(log)].images))

C12_Witness ==
  /\ Stride = 3 /\ pc = "mosaic" /\ Cardinality(FuseCalls(log)) = 2
  /\ PointsFused(log) = {<<"stereo", 5>>, <<"stereo", 8>>}

----------------------------------------------------------------------------
\* C13 (as stated): with a positive window size, every compositing call of
\* the incremental run is given all frames, with their poses, from the
\* start of the run up to the frame that triggered the pass.
C13_AllFramesSoFar ==
  (Stride >= 1 /\ pc = "publish") =>
    /\ log[Len(log)].images = FrameSeq(i + 1)
    /\ log[Len(log)].poses = FrameSeq(i + 1)

\* The frames a .. b in capture order.
FramesFromTo(a, b) == [k \in 1..(b - a + 1) |-> a + k - 1]

\* C13 (amended): with a positive window size N, every compositing call
\* of the incremental run is given the frames, with their poses,
\* accumulated since the previous pass up to the frame that triggered the
\* pass: all 2N frames from the start of the run in the first pass, and the
\* last N frames only in every later pass.
C13_FramesSinceLastPass ==
  (Stride >= 1 /\ pc = "publish") =>
    LET first == IF pcl_cnt = 1 THEN 0 ELSE i + 1 - Stride IN
      /\ log[Len(log)].op = "mosaic"
      /\ log[Len(log)].images = FramesFromTo(first, i)
      /\ log[Len(log)].poses = FramesFromTo(first, i)
      /\ (pcl_cnt = 1 => i + 1 = 2 * Stride)

C13_Witness ==
  /\ Stride = 2 /\ pc = "publish" /\ pcl_cnt = 2
  /\ log[Len(log)].images = <<4, 5>> /\ i = 5

----------------------------------------------------------------------------
----------------------------------------------------------------------------
\* C15: with a positive window size N, the frames given to the compositor
\* over the passes of an incremental run, taken in call order, are the
\* frames 0, 1, 2, ... in capture order, each once and each with its own
\* pose; between frames, once a pass has run, they are exactly the frames
\* of the completed windows (index below N * floor(consumed / N)); the
\* first pass is given 2N frames and every later pass N frames; the image
\* buffer and the pose buffer have the same length in every state.
RECURSIVE CompositedImages(_)
CompositedImages(l) ==
  IF l = <<>> THEN <<>>
  ELSE (IF Head(l).op = "mosaic" THEN Head(l).images ELSE <<>>)
         \o CompositedImages(Tail(l))

CompositeCalls(l) == {k \in 1..Len(l) : l[k].op = "mosaic"}

C15_CompositedFramesPartition ==
  /\ Len(images_subset) = Len(T_G_Bs_subset)
  /\ Stride >= 1 =>
       /\ CompositedImages(log) = FrameSeq(Len(CompositedImages(log)))
       /\ \A k \in CompositeCalls(log) :
            /\ log[k].poses = log[k].images
            /\ Len(log[k].images) =
                 IF \E j \in CompositeCalls(log) : j < k
                   THEN Stride ELSE 2 * Stride
       /\ (pc \in {"loop", "body", "done"} /\ CompositeCalls(log) # {} =>
             CompositedImages(log) =
               FrameSeq(Stride * WindowsCompleted(skip, Stride)))
       /\ (pc = "done" /\ CompositeCalls(log) # {} =>
             Range(CompositedImages(log)) =
               (0..(Len(images) - 1)) \ TailFrames)

C15_Witness ==
  /\ Stride = 2 /\ pc = "done" /\ Len(images) = 7
  /\ Cardinality(CompositeCalls(log)) = 2
  /\ CompositedImages(log) = <<0, 1, 2, 3, 4, 5>>

----------------------------------------------------------------------------
\* C16: with a positive window size N, the frames whose consumption
\* triggered a pass of the incremental run are, among the frames consumed,
\* exactly those with zero-based index k such that k+1 is a multiple of N
\* and k+1 >= 2N; a pass is in progress only on such a frame; a finished
\* run over M frames has made max(0, floor(M/N) - 1) passes and floor(M/N)
\* reconstruction calls.
PassTriggers(l) == {l[k - 1].images[1] : k \in FuseCalls(l)}

TriggersPass(k, n) == (k + 1) % n = 0 /\ k + 1 >= 2 * n

C16_PassIffSecondWindowOnward ==
  Stride >= 1 =>
    /\ (pc \in {"loop", "done"} =>
          PassTriggers(log) = {k \in 0..(i - 1) : TriggersPass(k, Stride)})
    /\ (pc \in {"dsm", "mosaic", "publish"} => TriggersPass(i, Stride))
    /\ (pc = "body" =>
          PassTriggers(log) = {k \in 0..(i - 1) : TriggersPass(k, Stride)})
    /\ (pc = "done" =>
          /\ i = Len(images)
          /\ PassesAre(log, Max(0, (Len(images) \div Stride) - 1))
          /\ NumCalls(log, "addFrame") = Len(images) \div Stride)

C16_Witness ==
  /\ Stride = 3 /\ pc = "done" /\ Len(images) = 10
  /\ PassTriggers(log) = {5, 8} /\ NumCalls(log, "addFrame") = 3

----------------------------------------------------------------------------
\* C17 (as stated): with a stride flag of 0 or below, the incremental run
\* is rejected before the first frame is consumed: no frame is ever
\* pushed, the counter is never incremented and tested against the flag
\* (no division by zero, no fault), and the run never returns normally
\* over a non-empty input with no pass made.
C17_StrideValidated ==
  Stride <= 0 =>
    /\ images_subset = <<>> /\ T_G_Bs_subset = <<>>
    /\ skip = 0
    /\ exit # "fault"
    /\ ~(pc = "done" /\ Len(images) > 0 /\ NumCalls(log, "publish") = 0)

====
